---- MODULE Spec2Model ----
(***************************************************************************)
(* Model of tools/fluid-build/src/common/npmPackage.ts: queueExec (a       *)
(* bounded async.queue of per-item tasks with optional progress lines),    *)
(* and the Packages entry points built on it (queueExecOnAllPackage,       *)
(* forEachAsync, clean).                                                   *)
(*                                                                         *)
(* JavaScript runs one job at a time.  A synchronous stretch of code is    *)
(* one action (the submission loops are split per iteration, and nothing   *)
(* else may run while pc = "submit").  Every continuation after an await   *)
(* is a job of the FIFO microtask queue `jobs`; the operation of an item   *)
(* completes at an arbitrary later moment (Complete).                      *)
(***************************************************************************)
EXTENDS Naturals, Sequences, FiniteSets

VARIABLES
    entry,      \* which Packages method was called
    n,          \* number of packages in the collection
    K,          \* options.concurrency
    label,      \* messageCallback / status supplied
    behaviour,  \* per item: what exec(item) does: "ok", "fail" (error as data), "throw"
    script,     \* per item: getScript("clean") is a non-empty string
    pc,         \* "idle", "submit" (synchronous loop running), "run"
    cursor,     \* position of the submission loop
    p,          \* the array p / cleanP: items whose promise was pushed, in push order
    tasks,      \* backlog of the async queue (items not yet handed to the worker)
    workers,    \* items whose worker was called and has not yet called callback()
    scheduled,  \* the queue's deferred process() is pending
    st,         \* per item: state of its operation: "idle", "running", "completed"
    fut,        \* per item: its promise
    reacted,    \* items whose settlement Promise.all has already observed
    agg,        \* the promise returned by Promise.all
    jobs,       \* FIFO microtask queue
    numDone,    \* completion counter of the progress reporter
    log,        \* status lines emitted, in emission order
    started,    \* items in the order their operations started
    completed,  \* items in the order their operations completed
    settled,    \* items in the order their promises settled
    results,    \* forEachAsync's results array (sequential mode)
    outcome,    \* of the entry's own promise: "pending", "returned", "rejected"
    retval,     \* <<v>> once the entry returned v (or rejected with v), <<>> before
    calls,      \* per item: how often its resolve, reject and callback were called
    packageCount,   \* Package.packageCount: the Package objects constructed
    matched,        \* per Package: _matched
    markForBuild,   \* per Package: _markForBuild
    io,         \* per package: how the file and npm operations of noHoistInstall end
    hoist       \* per package: progress of its noHoistInstall call

execVars == <<entry, n, K, label, behaviour, script, pc, cursor, p, tasks,
              workers, scheduled, st, fut, reacted, agg, jobs, numDone, log,
              started, completed, settled, results, outcome, retval, calls>>

pkgVars == <<packageCount, matched, markForBuild>>

instVars == <<io, hoist>>

vars == <<execVars, pkgVars, instVars>>

\* ---- bounds of the model
MaxN == 3
MaxK == 2
\* Most packages without a clean script in the collections of SpecClean.
MaxSkipped == 2
\* Most Package objects constructed in SpecPackage.
MaxPackages == 4
\* Most packages installing in SpecInstall.
MaxInstalls == 2

Items == 1..n

QueueEntries == {"queueExecOnAllPackage", "forEachAsyncParallel"}
VerdictEntries == {"queueExecOnAllPackage", "clean"}
Entries == QueueEntries \cup {"forEachAsyncSequential", "clean"}

\* ---- values
\* The ExecAsyncResult exec(item) resolves with; it embeds the item's identity.
OpResult(i) ==
    [item |-> i, error |-> IF behaviour[i] = "fail" THEN "ExecException" ELSE "null"]

\* The error exec(item) rejects with when it throws.
OpError(i) == [item |-> i, error |-> "Fault"]

Undefined == [item |-> 0, error |-> "undefined"]

Threw(i) == behaviour[i] = "throw"

\* JavaScript truthiness of result.error.
Truthy(e) == e \notin {"null", "undefined"}

Pending == [state |-> "pending", val |-> Undefined]
Fulfilled(v) == [state |-> "fulfilled", val |-> v]
Rejected(e) == [state |-> "rejected", val |-> e]

Job(k, i, t, v) == [kind |-> k, item |-> i, threw |-> t, val |-> v]

RECURSIVE SeqToSet(_)
SeqToSet(s) == IF s = <<>> THEN {} ELSE {Head(s)} \cup SeqToSet(Tail(s))

RECURSIVE Filter(_, _)
Filter(s, S) ==
    IF s = <<>> THEN <<>>
    ELSE IF Head(s) \in S THEN <<Head(s)>> \o Filter(Tail(s), S)
    ELSE Filter(Tail(s), S)

\* ---- queueExec
\* const result = await exec(item); ...; return result;
TimedExecNoReturn(r) == Undefined
TimedExecResult(r) == r

\* `[${++numDone}/${p.length}] ...`: the index printed is the incremented counter.
PostIncrementIndex(c) == c
EmittedIndex(c) == c + 1

\* logStatus is called on every return of exec, whatever the result holds.
LogOnlySuccess(r) == ~Truthy(r.error)
ShouldLog(r) == TRUE

\* `/${p.length}]`, `/${cleanP.length}]`: the length of the promise array, read
\* when the line is printed.
TotalAtDefinition == Len(<<>>)
StatusTotal == Len(p)

StatusLine(c, item) ==
    [index |-> EmittedIndex(c), total |-> StatusTotal, item |-> item]

\* The worker awaits timedExec before it calls callback(), so a started task
\* occupies its lane.
LanesAfterStartNoAwait(w, i) == w
LanesAfterStart(w, i) == w \cup {i}

\* try { taskExec.resolve(await timedExec(...)) } catch (e) { taskExec.reject(e) }:
\* how often the worker calls resolve and reject for one task.
ResolveCalls(threw) == IF threw THEN 0 ELSE 1

RejectInFinally(threw) == 1
RejectSwallowed(threw) == 0
RejectCalls(threw) == IF threw THEN 1 ELSE 0

\* callback() is called after the try/catch, on both paths.
LanesAfterCallbackInTry(w, i, threw) == IF threw THEN w ELSE w \ {i}
LanesAfterCallback(w, i, threw) == w \ {i}

\* q.push(task): the task goes to the end of the backlog.
EnqueueFront(t, i) == <<i>> \o t
Enqueue(t, i) == Append(t, i)

\* async.queue's process(): hand backlog tasks to the worker, in push order,
\* while fewer than options.concurrency workers are running.  The library
\* defers the first process() until the pushing code has finished, and runs
\* process() again inside every callback().  The worker is taken as a
\* callback-style function, i.e. it is handed `callback` as written.
RECURSIVE Pump(_, _, _)
Pump(t, w, s) ==
    IF t # <<>> /\ Cardinality(w) < K
    THEN Pump(Tail(t), LanesAfterStart(w, Head(t)), Append(s, Head(t)))
    ELSE [tasks |-> t, workers |-> w, started |-> s]

\* Promise.all(p): fulfils once every element is fulfilled, with the values in
\* the order of p.
PromiseRaceReady(pp, r) == \E k \in 1..Len(pp) : pp[k] \in r
PromiseAllReady(pp, r) == \A k \in 1..Len(pp) : pp[k] \in r

\* Promise.all rejects on the first rejection it observes, whatever is still
\* unsettled.
RejectsWhenAllSettled(threw, seen) == threw /\ PromiseAllReady(p, seen)
AggregateRejects(threw, seen) == threw

PromiseAllSettleOrder(pp, f, order) ==
    [k \in 1..Len(order) |-> f[order[k]].val]
PromiseAllValues(pp, f, order) == [k \in 1..Len(pp) |-> f[pp[k]].val]

\* !results.some(result => result.error)
ReduceEvery(rs) == ~(\A k \in 1..Len(rs) : Truthy(rs[k].error))
ReduceToSuccess(rs) == ~(\E k \in 1..Len(rs) : Truthy(rs[k].error))

\* ---- forEachAsync, parallel = false
\* results.push(await exec(pkg)): the call starts one operation and waits.
SeqNoAwait(m) == 1..m
SeqFirstBatch(m) == IF m > 0 THEN {1} ELSE {}

\* The loop goes on to the next package whatever the result holds.
SeqStopOnError(r) == ~Truthy(r.error)
SeqContinues(r) == TRUE

RECURSIVE Ascending(_)
Ascending(S) ==
    IF S = {} THEN <<>>
    ELSE LET m == CHOOSE x \in S : \A y \in S : x <= y
         IN <<m>> \o Ascending(S \ {m})

\* Nothing has run yet.
InitRest ==
    /\ pc = "idle"
    /\ cursor = 1
    /\ p = <<>>
    /\ tasks = <<>>
    /\ workers = {}
    /\ scheduled = FALSE
    /\ st = [i \in 1..n |-> "idle"]
    /\ fut = [i \in 1..n |-> Pending]
    /\ reacted = {}
    /\ agg = Pending
    /\ jobs = <<>>
    /\ numDone = 0
    /\ log = <<>>
    /\ started = <<>>
    /\ completed = <<>>
    /\ settled = <<>>
    /\ results = <<>>
    /\ outcome = "pending"
    /\ retval = <<>>
    /\ calls = [i \in 1..n |-> [resolve |-> 0, reject |-> 0, callback |-> 0]]

\* The n packages of the collection have been constructed; no flag is set.
InitLoaded ==
    /\ packageCount = n
    /\ matched = [i \in 1..n |-> FALSE]
    /\ markForBuild = [i \in 1..n |-> FALSE]

\* No noHoistInstall call has been made.
IdleInstall ==
    [stage |-> "idle", npmrc |-> FALSE, steps |-> <<>>, result |-> Undefined,
     ret |-> Undefined]

InitNoInstall ==
    /\ io = [i \in 1..n |-> [copy |-> "ok", install |-> "ok", unlink |-> "ok"]]
    /\ hoist = [i \in 1..n |-> IdleInstall]

\* A collection of up to MaxN packages, before one of the entry points is
\* called.  execWithErrorAsync, the operation of clean, reports failure in its
\* result and does not throw.
Init ==
    /\ entry \in Entries
    /\ n \in 0..MaxN
    /\ K \in 1..MaxK
    /\ label \in BOOLEAN
    /\ behaviour \in [1..n -> IF entry = "clean" THEN {"ok", "fail"}
                                                 ELSE {"ok", "fail", "throw"}]
    /\ script \in [1..n -> IF entry = "clean" THEN BOOLEAN ELSE {TRUE}]
    /\ InitRest
    /\ InitLoaded
    /\ InitNoInstall

\* Packages.clean over larger collections: up to MaxN packages with a clean
\* script among up to MaxSkipped packages without one.
InitClean ==
    /\ entry = "clean"
    /\ n \in 0..(MaxN + MaxSkipped)
    /\ K = 1
    /\ label \in BOOLEAN
    /\ script \in {f \in [1..n -> BOOLEAN] :
                        /\ Cardinality({i \in 1..n : f[i]}) <= MaxN
                        /\ Cardinality({i \in 1..n : ~f[i]}) <= MaxSkipped}
    /\ behaviour \in {b \in [1..n -> {"ok", "fail"}] :
                        \A i \in 1..n : ~script[i] => b[i] = "ok"}
    /\ InitRest
    /\ InitLoaded
    /\ InitNoInstall

\* ---- helpers of the actions
StartOps(s) == [i \in 1..n |-> IF i \in SeqToSet(s) THEN "running" ELSE st[i]]

ContJob == Job("cont", 0, FALSE, Undefined)

OpOutcome(i) == IF Threw(i) THEN OpError(i) ELSE OpResult(i)

\* The continuation that waits for exec(item) in each entry point.
ResumeKind ==
    IF entry \in QueueEntries THEN (IF label THEN "timed" ELSE "worker")
    ELSE IF entry = "clean" THEN "clean" ELSE "seq"

\* ---- Packages.clean
\* const cleanScript = pkg.getScript("clean"); if (cleanScript) ...: a package
\* whose clean script is absent (or empty) is passed over.
EveryUnitDeclares(i) == TRUE
DeclaresClean(i) == script[i]

\* cleanP.push(execCleanScript(pkg, cleanScript)): the call runs the script's
\* command at once, before the promise is pushed.
CleanDeferred(c) == <<>>
CleanOpsStarted(c) == IF DeclaresClean(c) THEN <<c>> ELSE <<>>

\* ---- entry points
\* Packages.cleanNodeModules / noHoistInstall / forEachAsync(parallel): queueExec
\* creates the queue and enters the submission loop.
CallQueueExec ==
    /\ pc = "idle"
    /\ entry \in QueueEntries
    /\ pc' = "submit"
    /\ UNCHANGED calls
    /\ UNCHANGED <<pkgVars, instVars>>
    /\ UNCHANGED <<entry, n, K, label, behaviour, script, cursor, p, tasks,
                   workers, scheduled, st, fut, reacted, agg, jobs, numDone,
                   log, started, completed, settled, results, outcome, retval>>

\* Packages.clean enters its loop over the packages.
CallClean ==
    /\ pc = "idle"
    /\ entry = "clean"
    /\ pc' = "submit"
    /\ UNCHANGED calls
    /\ UNCHANGED <<pkgVars, instVars>>
    /\ UNCHANGED <<entry, n, K, label, behaviour, script, cursor, p, tasks,
                   workers, scheduled, st, fut, reacted, agg, jobs, numDone,
                   log, started, completed, settled, results, outcome, retval>>

\* forEachAsync(exec, false): runs up to the first await; with no package it
\* returns the empty array.
CallSequential ==
    /\ pc = "idle"
    /\ entry = "forEachAsyncSequential"
    /\ pc' = "run"
    /\ LET s == Ascending(SeqFirstBatch(n))
       IN /\ st' = StartOps(s)
          /\ started' = started \o s
    /\ outcome' = IF n = 0 THEN "returned" ELSE outcome
    /\ retval' = IF n = 0 THEN <<results>> ELSE retval
    /\ UNCHANGED calls
    /\ UNCHANGED <<pkgVars, instVars>>
    /\ UNCHANGED <<entry, n, K, label, behaviour, script, cursor, p, tasks,
                   workers, scheduled, fut, reacted, agg, jobs, numDone, log,
                   completed, settled, results>>

\* One iteration of queueExec's loop: p.push(new Promise(... q.push(...))).
SubmitTask ==
    /\ pc = "submit"
    /\ entry \in QueueEntries
    /\ cursor <= n
    /\ p' = Append(p, cursor)
    /\ tasks' = Enqueue(tasks, cursor)
    /\ scheduled' = TRUE
    /\ cursor' = cursor + 1
    /\ UNCHANGED calls
    /\ UNCHANGED <<pkgVars, instVars>>
    /\ UNCHANGED <<entry, n, K, label, behaviour, script, pc, workers, st, fut,
                   reacted, agg, jobs, numDone, log, started, completed,
                   settled, results, outcome, retval>>

\* One iteration of clean's loop: a package with a clean script has its script
\* started at once, a package without one is skipped.
SubmitClean ==
    /\ pc = "submit"
    /\ entry = "clean"
    /\ cursor <= n
    /\ p' = IF DeclaresClean(cursor) THEN Append(p, cursor) ELSE p
    /\ st' = StartOps(CleanOpsStarted(cursor))
    /\ started' = started \o CleanOpsStarted(cursor)
    /\ cursor' = cursor + 1
    /\ UNCHANGED calls
    /\ UNCHANGED <<pkgVars, instVars>>
    /\ UNCHANGED <<entry, n, K, label, behaviour, script, pc, tasks, workers,
                   scheduled, fut, reacted, agg, jobs, numDone, log, completed,
                   settled, results, outcome, retval>>

\* Promise.all(p) after the loop; of an empty array it is fulfilled at once.
AwaitAll ==
    /\ pc = "submit"
    /\ cursor > n
    /\ pc' = "run"
    /\ agg' = IF PromiseAllReady(p, reacted)
              THEN Fulfilled(PromiseAllValues(p, fut, settled)) ELSE agg
    /\ jobs' = IF PromiseAllReady(p, reacted) THEN Append(jobs, ContJob) ELSE jobs
    /\ UNCHANGED calls
    /\ UNCHANGED <<pkgVars, instVars>>
    /\ UNCHANGED <<entry, n, K, label, behaviour, script, cursor, p, tasks,
                   workers, scheduled, st, fut, reacted, numDone, log, started,
                   completed, settled, results, outcome, retval>>

\* The queue's deferred process() runs once the calling code has finished.
Process ==
    /\ pc = "run"
    /\ scheduled
    /\ jobs = <<>>
    /\ LET r == Pump(tasks, workers, <<>>)
       IN /\ tasks' = r.tasks
          /\ workers' = r.workers
          /\ st' = StartOps(r.started)
          /\ started' = started \o r.started
    /\ scheduled' = FALSE
    /\ UNCHANGED calls
    /\ UNCHANGED <<pkgVars, instVars>>
    /\ UNCHANGED <<entry, n, K, label, behaviour, script, pc, cursor, p, fut,
                   reacted, agg, jobs, numDone, log, completed, settled,
                   results, outcome, retval>>

\* The operation of item i returns or throws: the promise of exec(i) settles
\* and the code awaiting it is queued.
Complete(i) ==
    /\ st[i] = "running"
    /\ st' = [st EXCEPT ![i] = "completed"]
    /\ completed' = Append(completed, i)
    /\ jobs' = Append(jobs, Job(ResumeKind, i, Threw(i), OpOutcome(i)))
    /\ UNCHANGED calls
    /\ UNCHANGED <<pkgVars, instVars>>
    /\ UNCHANGED <<entry, n, K, label, behaviour, script, pc, cursor, p, tasks,
                   workers, scheduled, fut, reacted, agg, numDone, log,
                   started, settled, results, outcome, retval>>

\* timedExec resumes after `await exec(item)`: on a result it counts, prints the
\* status line and returns the result; on a throw it rethrows.
TimedExecResume ==
    /\ pc = "run"
    /\ jobs # <<>>
    /\ Head(jobs).kind = "timed"
    /\ LET j == Head(jobs)
           logs == ~j.threw /\ ShouldLog(j.val)
       IN /\ numDone' = IF logs THEN numDone + 1 ELSE numDone
          /\ log' = IF logs THEN Append(log, StatusLine(numDone, j.item)) ELSE log
          /\ jobs' = Append(Tail(jobs),
                            Job("worker", j.item, j.threw,
                                IF j.threw THEN j.val ELSE TimedExecResult(j.val)))
    /\ UNCHANGED calls
    /\ UNCHANGED <<pkgVars, instVars>>
    /\ UNCHANGED <<entry, n, K, label, behaviour, script, pc, cursor, p, tasks,
                   workers, scheduled, st, fut, reacted, agg, started,
                   completed, settled, results, outcome, retval>>

\* The queue worker resumes after `await timedExec(item)`: resolve or reject
\* the item's promise, then callback(), which frees the lane and pumps the queue.
WorkerResume ==
    /\ pc = "run"
    /\ jobs # <<>>
    /\ Head(jobs).kind = "worker"
    /\ LET j == Head(jobs)
           i == j.item
           lanes == LanesAfterCallback(workers, i, j.threw)
           r == Pump(tasks, lanes, <<>>)
           now == IF fut[i].state # "pending" THEN fut[i]
                  ELSE IF ResolveCalls(j.threw) > 0 THEN Fulfilled(j.val)
                  ELSE IF RejectCalls(j.threw) > 0 THEN Rejected(j.val)
                  ELSE fut[i]
       IN /\ fut' = [fut EXCEPT ![i] = now]
          /\ calls' = [calls EXCEPT ![i] =
                          [resolve |-> @.resolve + ResolveCalls(j.threw),
                           reject |-> @.reject + RejectCalls(j.threw),
                           callback |-> @.callback + IF i \in lanes THEN 0 ELSE 1]]
          /\ settled' = IF now.state # "pending" THEN Append(settled, i) ELSE settled
          /\ tasks' = r.tasks
          /\ workers' = r.workers
          /\ st' = StartOps(r.started)
          /\ started' = started \o r.started
          /\ jobs' = IF now.state # "pending"
                     THEN Append(Tail(jobs),
                                 Job("all", i, now.state = "rejected", now.val))
                     ELSE Tail(jobs)
    /\ UNCHANGED <<pkgVars, instVars>>
    /\ UNCHANGED <<entry, n, K, label, behaviour, script, pc, cursor, p,
                   scheduled, reacted, agg, numDone, log, completed, results,
                   outcome, retval>>

\* execCleanScript resumes after `await execWithErrorAsync(...)`: with status it
\* counts and prints the status line; its own promise settles with the result.
CleanResume ==
    /\ pc = "run"
    /\ jobs # <<>>
    /\ Head(jobs).kind = "clean"
    /\ LET j == Head(jobs)
           logs == ~j.threw /\ label
       IN /\ numDone' = IF logs THEN numDone + 1 ELSE numDone
          /\ log' = IF logs THEN Append(log, StatusLine(numDone, j.item)) ELSE log
          /\ fut' = [fut EXCEPT ![j.item] =
                        IF j.threw THEN Rejected(j.val) ELSE Fulfilled(j.val)]
          /\ settled' = Append(settled, j.item)
          /\ jobs' = Append(Tail(jobs), Job("all", j.item, j.threw, j.val))
    /\ UNCHANGED calls
    /\ UNCHANGED <<pkgVars, instVars>>
    /\ UNCHANGED <<entry, n, K, label, behaviour, script, pc, cursor, p, tasks,
                   workers, scheduled, st, reacted, agg, started, completed,
                   results, outcome, retval>>

\* Promise.all observes the settlement of one element: the first rejection
\* rejects the aggregate, the last fulfilment fulfils it.
PromiseAllReact ==
    /\ pc = "run"
    /\ jobs # <<>>
    /\ Head(jobs).kind = "all"
    /\ LET j == Head(jobs)
           seen == reacted \cup {j.item}
           next == IF agg.state # "pending" THEN agg
                   ELSE IF AggregateRejects(j.threw, seen) THEN Rejected(j.val)
                   ELSE IF PromiseAllReady(p, seen)
                        THEN Fulfilled(PromiseAllValues(p, fut, settled))
                   ELSE agg
       IN /\ reacted' = seen
          /\ agg' = next
          /\ jobs' = IF next.state # agg.state
                     THEN Append(Tail(jobs), ContJob) ELSE Tail(jobs)
    /\ UNCHANGED calls
    /\ UNCHANGED <<pkgVars, instVars>>
    /\ UNCHANGED <<entry, n, K, label, behaviour, script, pc, cursor, p, tasks,
                   workers, scheduled, st, fut, numDone, log, started,
                   completed, settled, results, outcome, retval>>

\* queueExecOnAllPackage / clean resume after awaiting the aggregate: reduce
\* the results to the verdict, or rethrow the aggregate's rejection.
ReduceVerdict ==
    /\ pc = "run"
    /\ jobs # <<>>
    /\ Head(jobs).kind = "cont"
    /\ entry \in VerdictEntries
    /\ outcome' = IF agg.state = "fulfilled" THEN "returned" ELSE "rejected"
    /\ retval' = IF agg.state = "fulfilled"
                 THEN <<ReduceToSuccess(agg.val)>> ELSE <<agg.val>>
    /\ jobs' = Tail(jobs)
    /\ UNCHANGED calls
    /\ UNCHANGED <<pkgVars, instVars>>
    /\ UNCHANGED <<entry, n, K, label, behaviour, script, pc, cursor, p, tasks,
                   workers, scheduled, st, fut, reacted, agg, numDone, log,
                   started, completed, settled, results>>

\* forEachAsync(exec, true) hands the aggregate through unchanged.
ReturnResults ==
    /\ pc = "run"
    /\ jobs # <<>>
    /\ Head(jobs).kind = "cont"
    /\ entry = "forEachAsyncParallel"
    /\ outcome' = IF agg.state = "fulfilled" THEN "returned" ELSE "rejected"
    /\ retval' = <<agg.val>>
    /\ jobs' = Tail(jobs)
    /\ UNCHANGED calls
    /\ UNCHANGED <<pkgVars, instVars>>
    /\ UNCHANGED <<entry, n, K, label, behaviour, script, pc, cursor, p, tasks,
                   workers, scheduled, st, fut, reacted, agg, numDone, log,
                   started, completed, settled, results>>

\* forEachAsync(exec, false) resumes after `await exec(pkg)`: a throw ends the
\* call; a result is pushed and the loop starts the next package or returns.
SeqResume ==
    /\ pc = "run"
    /\ jobs # <<>>
    /\ Head(jobs).kind = "seq"
    /\ LET j == Head(jobs)
           pushed == Append(results, j.val)
           more == ~j.threw /\ SeqContinues(j.val) /\ j.item < n
       IN /\ results' = IF j.threw THEN results ELSE pushed
          /\ st' = IF more THEN StartOps(<<j.item + 1>>) ELSE st
          /\ started' = IF more THEN Append(started, j.item + 1) ELSE started
          /\ outcome' = IF j.threw THEN "rejected"
                        ELSE IF more THEN outcome ELSE "returned"
          /\ retval' = IF j.threw THEN <<j.val>>
                       ELSE IF more THEN retval ELSE <<pushed>>
    /\ jobs' = Tail(jobs)
    /\ UNCHANGED calls
    /\ UNCHANGED <<pkgVars, instVars>>
    /\ UNCHANGED <<entry, n, K, label, behaviour, script, pc, cursor, p, tasks,
                   workers, scheduled, fut, reacted, agg, numDone, log,
                   completed, settled>>

Next ==
    \/ CallQueueExec
    \/ CallClean
    \/ CallSequential
    \/ SubmitTask
    \/ SubmitClean
    \/ AwaitAll
    \/ Process
    \/ \E i \in Items : Complete(i)
    \/ TimedExecResume
    \/ WorkerResume
    \/ CleanResume
    \/ PromiseAllReact
    \/ ReduceVerdict
    \/ ReturnResults
    \/ SeqResume

Spec == Init /\ [][Next]_vars

\* The event loop always runs a job that is ready, and every operation that
\* has been started returns or throws in the end.
LiveSpec == Init /\ [][Next]_vars /\ WF_vars(Next)

\* The steps of Packages.clean.
NextClean ==
    \/ CallClean
    \/ SubmitClean
    \/ AwaitAll
    \/ \E i \in Items : Complete(i)
    \/ CleanResume
    \/ PromiseAllReact
    \/ ReduceVerdict

SpecClean == InitClean /\ [][NextClean]_vars


\* ---- vocabulary of the properties
InFlight == {i \in Items : st[i] = "running"}

\* No job is left to run: every promise that will ever settle has settled.
Quiescent == ~ENABLED Next

NoThrow == \A i \in Items : ~Threw(i)

Returned == {i \in Items : ~Threw(i)}

\* The units whose operation the entry point is to run.
Participants == IF entry = "clean" THEN {i \in Items : script[i]} ELSE Items

VerdictOut == entry \in VerdictEntries /\ outcome = "returned"

LogItems == [k \in 1..Len(log) |-> log[k].item]

IsPrefix(s, t) == Len(s) <= Len(t) /\ \A k \in 1..Len(s) : s[k] = t[k]

\* C1: in queueExec the number of operations started and not yet completed
\* never exceeds the concurrency limit K.
C1_AtMostKInFlight ==
    entry \in QueueEntries => Cardinality(InFlight) <= K

\* A lane was freed and refilled: K operations in flight, one already
\* completed, more in the backlog.
C1_Witness ==
    /\ entry \in QueueEntries
    /\ Cardinality(InFlight) = K
    /\ completed # <<>>
    /\ tasks # <<>>

\* C2: when no operation throws, queueExec's aggregate never rejects, and it
\* fulfils with an array of length n whose i-th entry is the result of the
\* i-th item, whatever the completion order; once nothing is left to run it
\* has fulfilled.
C2_ResultsInInputOrder ==
    (entry \in QueueEntries /\ NoThrow) =>
        /\ agg.state # "rejected"
        /\ agg.state = "fulfilled" =>
              /\ Len(agg.val) = n
              /\ \A i \in Items : agg.val[i] = OpResult(i)
        /\ Quiescent => agg.state = "fulfilled"

\* The aggregate fulfilled although the last item completed first.
C2_Witness ==
    /\ entry \in QueueEntries
    /\ NoThrow
    /\ n >= 2
    /\ agg.state = "fulfilled"
    /\ completed[1] = n

\* C3: in queueExec only the promise of an item whose operation threw is
\* rejected, and a throw never strands the others: once nothing is left to
\* run, every item's operation has run and every promise has settled,
\* fulfilled unless its own operation threw (also after the aggregate
\* rejected).
C3_FailureIsolation ==
    entry \in QueueEntries =>
        /\ \A i \in Items : fut[i].state = "rejected" => Threw(i)
        /\ Quiescent =>
              \A i \in Items :
                  /\ st[i] = "completed"
                  /\ fut[i].state = IF Threw(i) THEN "rejected" ELSE "fulfilled"

\* One lane, the first item threw and rejected the aggregate while the other
\* two were still in the backlog, and both were fulfilled afterwards.
C3_Witness ==
    /\ entry \in QueueEntries
    /\ n = 3
    /\ K = 1
    /\ Threw(1)
    /\ agg.state = "rejected"
    /\ settled = <<1, 2, 3>>
    /\ fut[2].state = "fulfilled"
    /\ fut[3].state = "fulfilled"

C5_VerdictIffError ==
    VerdictOut =>
        /\ retval \in {<<TRUE>>, <<FALSE>>}
        /\ retval = <<FALSE>> <=>
              \E k \in 1..Len(agg.val) : Truthy(agg.val[k].error)

\* A verdict of false over a collection that holds a success and a failure.
C5_Witness ==
    /\ VerdictOut
    /\ retval = <<FALSE>>
    /\ \E k \in 1..Len(agg.val) : ~Truthy(agg.val[k].error)
    /\ \E k \in 1..Len(agg.val) : Truthy(agg.val[k].error)

\* C6: forEachAsync with parallel = false runs at most one operation at a
\* time, starts the operations in collection order, starts unit i+1 only when
\* unit i has completed, and returns the results in collection order.
C6_StrictlySequential ==
    entry = "forEachAsyncSequential" =>
        /\ Cardinality(InFlight) <= 1
        /\ started = [k \in 1..Len(started) |-> k]
        /\ \A i \in Items : (i > 1 /\ st[i] # "idle") => st[i - 1] = "completed"
        /\ outcome = "returned" => retval = <<[i \in 1..n |-> OpResult(i)]>>

\* The last of three units is running after the first two completed.
C6_Witness ==
    /\ entry = "forEachAsyncSequential"
    /\ n = 3
    /\ st[3] = "running"
    /\ Len(results) = 2

\* C7 as stated: when sequential forEachAsync has settled, every unit was
\* attempted, whatever failed.
C7_EveryUnitAttempted ==
    (entry = "forEachAsyncSequential" /\ outcome # "pending") =>
        \A i \in Items : st[i] # "idle"

\* C7 amended: sequential forEachAsync settles, and when it has, a unit was
\* run exactly if no earlier unit's operation threw: a failure returned as
\* data stops nothing, a throw ends the loop.
C7_DataFailureDoesNotStop ==
    entry = "forEachAsyncSequential" =>
        /\ Quiescent => outcome # "pending"
        /\ outcome # "pending" =>
              \A i \in Items :
                  IF \E j \in 1..(i - 1) : Threw(j)
                  THEN st[i] = "idle"
                  ELSE st[i] = "completed"

\* The first unit failed as data and the last unit was still run.
C7_Witness ==
    /\ entry = "forEachAsyncSequential"
    /\ n >= 2
    /\ behaviour[1] = "fail"
    /\ outcome = "returned"
    /\ st[n] = "completed"

\* C8 as stated: with a label, after all n operations have completed and
\* nothing is left to run, the counter is n and the indices printed are 1..n.
C8_CounterReachesN ==
    (entry \in QueueEntries /\ label /\ K > 1 /\ Quiescent) =>
        /\ numDone = n
        /\ [k \in 1..Len(log) |-> log[k].index] = [k \in 1..n |-> k]

\* C8 amended: with a label, the indices printed are 1, 2, ... in emission
\* order with none repeated or skipped, the counter equals the number of lines
\* printed, and it ends at the number of operations that returned (n when no
\* operation throws).
C8_IndicesGapFree ==
    (entry \in QueueEntries /\ label) =>
        /\ numDone = Len(log)
        /\ \A k \in 1..Len(log) : log[k].index = k
        /\ Quiescent => numDone = Cardinality(Returned)

\* Two completions wait to count while the counter already stands at one.
C8_Witness ==
    /\ entry \in QueueEntries
    /\ label
    /\ K > 1
    /\ numDone = 1
    /\ Len(jobs) >= 2
    /\ jobs[1].kind = "timed" /\ ~jobs[1].threw
    /\ jobs[2].kind = "timed" /\ ~jobs[2].threw

\* C9 as stated: with a label, once nothing is left to run there is one status
\* line per completed task, in completion order.
C9_OneLinePerCompletedTask ==
    (entry \in QueueEntries /\ label /\ Quiescent) => LogItems = completed

\* C9 amended: with a label, the status lines are those of the tasks whose
\* operation returned (with or without an error in the result), one each, in
\* the order the operations completed; a task whose operation threw gets none.
C9_OneLinePerReturnedTask ==
    (entry \in QueueEntries /\ label) =>
        /\ IsPrefix(LogItems, Filter(completed, Returned))
        /\ Quiescent => LogItems = Filter(completed, Returned)

\* Lines out of submission order, one of them for a task that failed as data.
C9_Witness ==
    /\ entry \in QueueEntries
    /\ label
    /\ Len(log) >= 2
    /\ log[1].item > log[2].item
    /\ \E k \in 1..Len(log) : behaviour[log[k].item] = "fail"

\* C10: in queueExec an item's promise settles with the outcome of its own
\* operation, the same value or the same error, with a label callback as
\* without one.
C10_DecorationTransparent ==
    entry \in QueueEntries =>
        \A i \in Items :
            fut[i].state # "pending" =>
                fut[i] = IF Threw(i) THEN Rejected(OpError(i))
                         ELSE Fulfilled(OpResult(i))

\* With a label: a line was printed, one promise fulfilled, another rejected.
C10_Witness ==
    /\ entry \in QueueEntries
    /\ label
    /\ log # <<>>
    /\ \E i \in Items : fut[i].state = "fulfilled"
    /\ \E i \in Items : fut[i].state = "rejected"


\* C11: queueExec starts the operations in submission order: the items
\* started so far are always 1, 2, ..., in that order, so item j never starts
\* before an item i < j has started.
C11_StartsInSubmissionOrder ==
    entry \in QueueEntries => started = [k \in 1..Len(started) |-> k]

\* Two lanes: the third item took the lane the second one freed, while the
\* first is still running.
C11_Witness ==
    /\ entry \in QueueEntries
    /\ n = 3
    /\ K = 2
    /\ started = <<1, 2, 3>>
    /\ st[1] = "running"


\* C12: Packages.clean runs the clean operation of exactly the packages that
\* declare a clean script and never that of another package; only their
\* results are reduced, so a package without the script cannot make the
\* verdict false, and the verdict is always returned.
C12_CleanSkipsUnitsWithoutScript ==
    entry = "clean" =>
        /\ \A i \in Items : ~script[i] => st[i] = "idle"
        /\ pc = "run" => SeqToSet(started) = {i \in Items : script[i]}
        /\ outcome # "rejected"
        /\ ~ENABLED NextClean => outcome = "returned"
        /\ outcome = "returned" =>
              /\ [k \in 1..Len(agg.val) |-> agg.val[k].item]
                    = Ascending({i \in Items : script[i]})
              /\ retval = <<\A i \in Items : script[i] => behaviour[i] # "fail">>

\* Five packages: two with a succeeding script, one with a failing one, two
\* without; three operations were run and the verdict is false.
C12_Witness ==
    /\ entry = "clean"
    /\ n = 5
    /\ Cardinality({i \in Items : script[i] /\ behaviour[i] = "ok"}) = 2
    /\ Cardinality({i \in Items : script[i] /\ behaviour[i] = "fail"}) = 1
    /\ Cardinality({i \in Items : ~script[i]}) = 2
    /\ Len(completed) = 3
    /\ outcome = "returned"
    /\ retval = <<FALSE>>


\* C13: queueExec's aggregate is fail-fast: a rejected item promise either has
\* already rejected the aggregate or its notice is queued, whatever else is
\* running or waiting; the aggregate rejects with the error of the item that
\* rejected first, and it fulfils only when every item promise is fulfilled.
C13_AggregateFailFast ==
    entry \in QueueEntries =>
        /\ \A i \in Items :
              (fut[i].state = "rejected" /\ agg.state = "pending") =>
                  \E k \in 1..Len(jobs) : jobs[k] = Job("all", i, TRUE, OpError(i))
        /\ agg.state = "rejected" =>
              agg.val = OpError(Head(Filter(settled, {i \in Items : Threw(i)})))
        /\ agg.state = "fulfilled" =>
              \A i \in Items : fut[i].state = "fulfilled"

\* The aggregate has rejected while one operation is in flight and another
\* task is still in the backlog.
C13_Witness ==
    /\ entry \in QueueEntries
    /\ agg.state = "rejected"
    /\ InFlight # {}
    /\ tasks # <<>>


\* C14: in queueExec the worker calls at most one of resolve and reject for a
\* task, and that one once: resolve exactly when the operation returned, with
\* its result, reject exactly when it threw, with its error; once nothing is
\* left to run, every task has had its one call.
C14_SettledOnce ==
    entry \in QueueEntries =>
        \A i \in Items :
            /\ calls[i].resolve + calls[i].reject <= 1
            /\ calls[i].resolve + calls[i].reject = 0 <=> fut[i].state = "pending"
            /\ calls[i].resolve = 1 => fut[i] = Fulfilled(OpResult(i)) /\ ~Threw(i)
            /\ calls[i].reject = 1 => fut[i] = Rejected(OpError(i)) /\ Threw(i)
            /\ Quiescent => calls[i].resolve + calls[i].reject = 1

\* One task was resolved and another was rejected.
C14_Witness ==
    /\ entry \in QueueEntries
    /\ \E i \in Items : calls[i].resolve = 1
    /\ \E i \in Items : calls[i].reject = 1


\* C15: when the event loop keeps running and every started operation returns
\* or throws, a call of queueExec reaches the point where the operation of
\* every item has run, every item promise has settled with the outcome of its
\* own operation, and the aggregate has settled.
C15_EverySubmittedItemSettles ==
    <>(entry \in QueueEntries =>
          /\ \A i \in Items :
                /\ st[i] = "completed"
                /\ fut[i] = IF Threw(i) THEN Rejected(OpError(i))
                            ELSE Fulfilled(OpResult(i))
          /\ agg.state # "pending")

\* More items than lanes, one operation threw, and everything has settled.
C15_Witness ==
    /\ entry \in QueueEntries
    /\ n > K
    /\ \E i \in Items : Threw(i)
    /\ \E i \in Items : ~Threw(i)
    /\ \A i \in Items : st[i] = "completed" /\ fut[i].state # "pending"
    /\ agg.state # "pending"


\* A completed operation whose worker has not yet resumed.
CompletionWaiting ==
    \E k \in 1..Len(jobs) : jobs[k].kind \in {"timed", "worker"}

\* C17: in queueExec callback() is called once per task, when its promise is
\* settled, after a result as after a throw; a lane is held exactly from the
\* start of a task to its callback, so no lane leaks; and while the backlog is
\* not empty all K lanes are taken, with K operations in flight unless a
\* completed one is still waiting for its worker to resume.
C17_CompletionFreesLane ==
    entry \in QueueEntries =>
        /\ \A i \in Items :
              /\ calls[i].callback <= 1
              /\ calls[i].callback = 1 <=> fut[i].state # "pending"
        /\ workers = {i \in Items : st[i] # "idle" /\ calls[i].callback = 0}
        /\ (pc = "run" /\ ~scheduled /\ tasks # <<>>) =>
              /\ Cardinality(workers) = K
              /\ ~CompletionWaiting => Cardinality(InFlight) = K
        /\ Quiescent => workers = {} /\ \A i \in Items : calls[i].callback = 1

\* One lane: the first task threw, its callback ran, and the second task has
\* taken the lane.
C17_Witness ==
    /\ entry \in QueueEntries
    /\ n = 3
    /\ K = 1
    /\ Threw(1)
    /\ calls[1].callback = 1
    /\ st[2] = "running"
    /\ tasks = <<3>>


\* C18: in queueExec and in Packages.clean no status line is printed before
\* the submission loop has ended, and every status line shows as its total the
\* full batch size (all items, respectively the packages with a clean script)
\* and an index that does not exceed it.
C18_TotalIsBatchSize ==
    entry \in QueueEntries \cup {"clean"} =>
        /\ pc # "run" => log = <<>>
        /\ \A k \in 1..Len(log) :
              /\ log[k].total = Cardinality(Participants)
              /\ log[k].index <= log[k].total

\* clean with status: one package was skipped, the first of the two others
\* has completed and its line shows the total 2 while the second still runs.
C18_Witness ==
    /\ entry = "clean"
    /\ label
    /\ Cardinality(Participants) < n
    /\ Len(p) = 2
    /\ Cardinality(InFlight) = 1
    /\ Len(log) = 1
    /\ log[1].total = 2


\* C19: Packages.clean never uses the queue: each package with a clean script
\* has its operation started by its own loop iteration, so when clean begins
\* to wait all of them have been started, and the operations in flight are
\* all of them that have not completed yet, whatever K is.
C19_CleanIsUnbounded ==
    entry = "clean" =>
        /\ tasks = <<>> /\ workers = {} /\ ~scheduled
        /\ pc = "submit" =>
              started = Ascending({i \in Participants : i < cursor})
        /\ pc = "run" =>
              /\ started = Ascending(Participants)
              /\ InFlight = Participants \ SeqToSet(completed)

\* clean is waiting with all its operations in flight, more of them than K.
C19_Witness ==
    /\ entry = "clean"
    /\ pc = "run"
    /\ InFlight = Participants
    /\ Cardinality(InFlight) > K


\* ---- Package: the selection flags
\* setMatched: this._matched = true; this._markForBuild = true;
SetMatchedOnlyMatched(mk, i) == mk
MarkAfterSetMatched(mk, i) == [mk EXCEPT ![i] = TRUE]

\* new Package(...): packageId = Package.packageCount++, both flags false.
NewPackage ==
    /\ packageCount < MaxPackages
    /\ packageCount' = packageCount + 1
    /\ matched' = Append(matched, FALSE)
    /\ markForBuild' = Append(markForBuild, FALSE)
    /\ UNCHANGED <<execVars, instVars>>

SetMatched(i) ==
    /\ matched' = [matched EXCEPT ![i] = TRUE]
    /\ markForBuild' = MarkAfterSetMatched(markForBuild, i)
    /\ UNCHANGED <<execVars, instVars, packageCount>>

SetMarkForBuild(i) ==
    /\ markForBuild' = [markForBuild EXCEPT ![i] = TRUE]
    /\ UNCHANGED <<execVars, instVars, packageCount, matched>>

\* Before the first package is loaded.
InitPackage ==
    /\ entry = "clean"
    /\ n = 0
    /\ K = 1
    /\ label = FALSE
    /\ behaviour = <<>>
    /\ script = <<>>
    /\ InitRest
    /\ InitLoaded
    /\ InitNoInstall

NextPackage ==
    \/ NewPackage
    \/ \E i \in 1..packageCount : SetMatched(i)
    \/ \E i \in 1..packageCount : SetMarkForBuild(i)

SpecPackage == InitPackage /\ [][NextPackage]_vars

\* C16: for every Package, matched implies markForBuild; a new Package has
\* both flags false; no step clears a flag; and setMarkForBuild leaves matched
\* as it is.
C16_MatchedImpliesMarkForBuild ==
    /\ [](\A i \in 1..packageCount : matched[i] => markForBuild[i])
    /\ [][/\ \A i \in 1..packageCount :
                /\ matched[i] => matched'[i]
                /\ markForBuild[i] => markForBuild'[i]
          /\ \A i \in (packageCount + 1)..packageCount' :
                ~matched'[i] /\ ~markForBuild'[i]
          /\ (\E i \in 1..packageCount : SetMarkForBuild(i)) => matched' = matched
         ]_vars

\* One Package is matched and marked, another is marked without being matched.
C16_Witness ==
    /\ packageCount >= 2
    /\ matched[1] /\ markForBuild[1]
    /\ ~matched[2] /\ markForBuild[2]


\* ---- Package.noHoistInstall
\* What execWithErrorAsync resolves with for unit u: a failed install is
\* reported in result.error.
InstallResult(u) ==
    [item |-> u, error |-> IF io[u].install = "fail" THEN "ExecException" ELSE "null"]

\* const result = await execWithErrorAsync(...); await unlinkAsync(npmRC);
ReturnEarlyOnError(h) ==
    IF Truthy(h.result.error)
    THEN [h EXCEPT !.stage = "returned", !.ret = h.result,
                   !.steps = Append(@, "returned")]
    ELSE [h EXCEPT !.stage = "unlinking"]
AwaitUnlink(h) == [h EXCEPT !.stage = "unlinking"]

\* noHoistInstall(repoRoot) is called on unit u: copyFileAsync is started.
InstallCall(u) ==
    /\ hoist[u].stage = "idle"
    /\ hoist' = [hoist EXCEPT ![u].stage = "copying"]
    /\ UNCHANGED <<execVars, pkgVars, io>>

\* copyFileAsync settles: the unit has its .npmrc, or the call rejects.
CopyDone(u) ==
    /\ hoist[u].stage = "copying"
    /\ hoist' = [hoist EXCEPT ![u] =
            IF io[u].copy = "ok"
            THEN [@ EXCEPT !.stage = "copied", !.npmrc = TRUE,
                           !.steps = Append(@, "copied")]
            ELSE [@ EXCEPT !.stage = "rejected"]]
    /\ UNCHANGED <<execVars, pkgVars, io>>

\* The continuation after the first await starts the install command.
InstallStart(u) ==
    /\ hoist[u].stage = "copied"
    /\ hoist' = [hoist EXCEPT ![u].stage = "installing",
                              ![u].steps = Append(@, "installStarted")]
    /\ UNCHANGED <<execVars, pkgVars, io>>

\* The install command finishes; execWithErrorAsync resolves with its result.
InstallDone(u) ==
    /\ hoist[u].stage = "installing"
    /\ hoist' = [hoist EXCEPT ![u].stage = "installed",
                              ![u].result = InstallResult(u),
                              ![u].steps = Append(@, "installFinished")]
    /\ UNCHANGED <<execVars, pkgVars, io>>

\* The continuation after the second await starts unlinkAsync.
UnlinkStart(u) ==
    /\ hoist[u].stage = "installed"
    /\ hoist' = [hoist EXCEPT ![u] = AwaitUnlink(@)]
    /\ UNCHANGED <<execVars, pkgVars, io>>

\* unlinkAsync settles: the .npmrc is gone, or the call rejects.
UnlinkDone(u) ==
    /\ hoist[u].stage = "unlinking"
    /\ hoist' = [hoist EXCEPT ![u] =
            IF io[u].unlink = "ok"
            THEN [@ EXCEPT !.stage = "unlinked", !.npmrc = FALSE,
                           !.steps = Append(@, "removed")]
            ELSE [@ EXCEPT !.stage = "rejected"]]
    /\ UNCHANGED <<execVars, pkgVars, io>>

\* return result;
InstallReturn(u) ==
    /\ hoist[u].stage = "unlinked"
    /\ hoist' = [hoist EXCEPT ![u].stage = "returned",
                              ![u].ret = hoist[u].result,
                              ![u].steps = Append(@, "returned")]
    /\ UNCHANGED <<execVars, pkgVars, io>>

\* Up to MaxInstalls units; the file operations may throw, the install command
\* may fail.
InitInstall ==
    /\ entry = "queueExecOnAllPackage"
    /\ n \in 1..MaxInstalls
    /\ K = 1
    /\ label = TRUE
    /\ behaviour = [i \in 1..n |-> "ok"]
    /\ script = [i \in 1..n |-> TRUE]
    /\ InitRest
    /\ InitLoaded
    /\ io \in [1..n -> [copy : {"ok", "throw"}, install : {"ok", "fail"},
                        unlink : {"ok", "throw"}]]
    /\ hoist = [i \in 1..n |-> IdleInstall]

NextInstall ==
    \E u \in 1..n :
        \/ InstallCall(u)
        \/ CopyDone(u)
        \/ InstallStart(u)
        \/ InstallDone(u)
        \/ UnlinkStart(u)
        \/ UnlinkDone(u)
        \/ InstallReturn(u)

SpecInstall == InitInstall /\ [][NextInstall]_vars

InstallOrder == <<"copied", "installStarted", "installFinished", "removed", "returned">>

\* C20: noHoistInstall does its steps in order for every unit: the .npmrc is
\* copied before the install command starts and is there while it runs; it is
\* removed after the install command has finished and before the result is
\* returned; a failed install (result.error set) gets the same removal, and
\* the value returned is the install command's result, unchanged.
C20_InstallStepsInOrder ==
    \A u \in 1..n :
        /\ IsPrefix(hoist[u].steps, InstallOrder)
        /\ hoist[u].stage \in {"installing", "installed"} => hoist[u].npmrc
        /\ hoist[u].stage \in {"unlinking", "unlinked", "returned"} =>
                hoist[u].result = InstallResult(u)
        /\ hoist[u].stage = "returned" =>
                /\ ~hoist[u].npmrc
                /\ hoist[u].steps = InstallOrder
                /\ hoist[u].ret = InstallResult(u)
        /\ (~ENABLED NextInstall /\ io[u].copy = "ok" /\ io[u].unlink = "ok") =>
                hoist[u].stage = "returned"

\* A unit whose install failed as data has returned that result, with its
\* .npmrc removed.
C20_Witness ==
    \E u \in 1..n :
        /\ io[u].install = "fail"
        /\ hoist[u].stage = "returned"
        /\ ~hoist[u].npmrc
        /\ Truthy(hoist[u].ret.error)

====
